---- MODULE Spec2Model ----
(***************************************************************************)
(* Model of the SonarI18n class (src/src/marquee.ts, lines 469-1167): the  *)
(* locale registry, startup detection, translation loading, key resolution *)
(* and the language switch, together with the asynchronous interleavings   *)
(* that its awaits allow on the single JavaScript thread.                  *)
(*                                                                         *)
(* JavaScript strings are sequences of one-character strings, so that      *)
(* split, length, replace and concatenation are computed as the code       *)
(* computes them.                                                          *)
(***************************************************************************)
EXTENDS Integers, Sequences, FiniteSets, TLC

VARIABLES
    constructed,      \* TRUE once `new SonarI18n()` has run (marquee.ts:1167)
    currentLanguage,  \* SonarI18n.currentLanguage
    translations,     \* SonarI18n.translations (Map: language -> tree)
    languageConfigs,  \* SonarI18n.languageConfigs (Map, in insertion order)
    isRTL,            \* SonarI18n.isRTL
    initialized,      \* SonarI18n.initialized
    pathname,         \* window.location.pathname
    search,           \* window.location.search
    storedLanguage,   \* localStorage item 'sonar_language'
    navigator,        \* [language, languages] reported by the browser
    document,         \* [dir, lang, content] of the page
    events,           \* 'languageChanged' events dispatched so far, in order
    tasks,            \* suspended async calls (loadTranslations, changeLanguage)
    fetchCount,       \* number of fetch() calls issued per language file
    calls,            \* number of changeLanguage() invocations so far
    lastCall,         \* the most recent changeLanguage() invocation
    initializeCalled, \* TRUE once the application has called initialize()
    switcherListeners, \* click listeners installed by initializeLanguageSwitcher
    consoleErrors,    \* console.error('Failed to change language:') calls
    resolved,         \* the most recent call of t(): [key, interpolations, result]
    navigation,       \* the SonarNavigation object and its page (part_000)
    preloader,        \* the SonarPreloader object and its page (part_002)
    analytics,        \* the SonarAnalytics object (part_001)
    cms               \* the SonarCMS object (enhanced-main.ts)

\* The state of SonarI18n and of its page.
i18nVars == <<constructed, currentLanguage, translations, languageConfigs,
              isRTL, initialized, pathname, search, storedLanguage, navigator,
              document, events, tasks, fetchCount, calls, lastCall,
              initializeCalled, switcherListeners, consoleErrors, resolved>>

\* The state of the other objects of the page.
pageVars == <<navigation, preloader, analytics, cms>>

vars == <<i18nVars, pageVars>>

-----------------------------------------------------------------------------
(* Bounds of the model *)

MaxCalls == 2        \* changeLanguage() invocations per behaviour
MaxTransitions == 2  \* page transitions counted per page
MaxVisibilityChanges == 2  \* visibilitychange events per page
MaxEvents == 3       \* trackEvent() calls by the application
MaxLoads == 3        \* load calls on the CMS

-----------------------------------------------------------------------------
(* Strings *)

\* JavaScript null / undefined: a value no character sequence equals.
Null == <<"null">>

en == <<"e", "n">>
es == <<"e", "s">>
fr == <<"f", "r">>
de == <<"d", "e">>
ja == <<"j", "a">>
zh == <<"z", "h">>
ar == <<"a", "r">>
xx == <<"x", "x">>

\* Array.prototype.splice(i, 1), on a sequence.
RemoveAt(seq, i) == SubSeq(seq, 1, i - 1) \o SubSeq(seq, i + 1, Len(seq))

\* JavaScript truthiness of a string-or-null value.
Truthy(v) == v # Null /\ v # <<>>

\* String.prototype.split with a one-character separator.
Split(s, sep) ==
    LET RECURSIVE Go(_, _, _)
        Go(i, cur, acc) ==
            IF i > Len(s) THEN Append(acc, cur)
            ELSE IF s[i] = sep THEN Go(i + 1, <<>>, Append(acc, cur))
            ELSE Go(i + 1, Append(cur, s[i]), acc)
    IN Go(1, <<>>, <<>>)

\* Array.prototype.filter(Boolean) on an array of strings.
FilterBoolean(arr) == SelectSeq(arr, LAMBDA x : x # <<>>)

\* String.prototype.indexOf, 1-based; 0 when pat does not occur.
IndexOf(s, pat) ==
    LET starts == {i \in 1..(Len(s) - Len(pat) + 1) :
                       SubSeq(s, i, i + Len(pat) - 1) = pat}
    IN IF starts = {} THEN 0
       ELSE CHOOSE i \in starts : \A j \in starts : i <= j

\* String.prototype.replace with a string pattern: first occurrence only.
Replace(s, pat, rep) ==
    LET i == IndexOf(s, pat)
    IN IF i = 0 THEN s
       ELSE SubSeq(s, 1, i - 1) \o rep \o SubSeq(s, i + Len(pat), Len(s))

\* new URLSearchParams(search).get(name): the value of the first pair called
\* name, null when there is none.
SearchParamsGet(query, name) ==
    LET body  == IF query # <<>> /\ query[1] = "?"
                 THEN SubSeq(query, 2, Len(query)) ELSE query
        pairs == FilterBoolean(Split(body, "&"))
        Name(p)  == LET i == IndexOf(p, <<"=">>)
                    IN IF i = 0 THEN p ELSE SubSeq(p, 1, i - 1)
        Value(p) == LET i == IndexOf(p, <<"=">>)
                    IN IF i = 0 THEN <<>> ELSE SubSeq(p, i + 1, Len(p))
        hits  == {k \in 1..Len(pairs) : Name(pairs[k]) = name}
    IN IF hits = {} THEN Null
       ELSE Value(pairs[CHOOSE k \in hits : \A j \in hits : k <= j])

lang == <<"l", "a", "n", "g">>

-----------------------------------------------------------------------------
(* Locale registry *)

\* The table built by initializeLanguages, in insertion order.
languages ==
    << [code |-> en, name |-> "English",  direction |-> "ltr", enabled |-> TRUE],
       [code |-> es, name |-> "Spanish",  direction |-> "ltr", enabled |-> TRUE],
       [code |-> fr, name |-> "French",   direction |-> "ltr", enabled |-> TRUE],
       [code |-> de, name |-> "German",   direction |-> "ltr", enabled |-> TRUE],
       [code |-> ja, name |-> "Japanese", direction |-> "ltr", enabled |-> TRUE],
       [code |-> zh, name |-> "Chinese (Simplified)", direction |-> "ltr",
        enabled |-> TRUE],
       [code |-> ar, name |-> "Arabic",   direction |-> "rtl", enabled |-> FALSE] >>

defaultLanguage == en

\* Map.get on the registry: the config of a code, or null.
NoConfig == [code |-> Null, name |-> "", direction |-> "ltr", enabled |-> FALSE]

ConfigGet(configs, code) ==
    LET hits == {k \in 1..Len(configs) : configs[k].code = code}
    IN IF hits = {} THEN NoConfig ELSE configs[CHOOSE k \in hits : TRUE]

isLanguageSupported_noEnabledCheck(configs, language) ==
    ConfigGet(configs, language) # NoConfig

isLanguageSupported(configs, language) ==
    LET config == ConfigGet(configs, language)
    IN IF config # NoConfig THEN config.enabled ELSE FALSE

getSupportedLanguages_all(configs) == configs

getSupportedLanguages(configs) ==
    SelectSeq(configs, LAMBDA l : l.enabled)

-----------------------------------------------------------------------------
(* Locale detection *)

extractLanguageFromPath(configs, path) ==
    LET pathSegments == FilterBoolean(Split(path, "/"))
    IN IF Len(pathSegments) > 0
       THEN LET potentialLang == pathSegments[1]
            IN IF Len(potentialLang) = 2
                  /\ isLanguageSupported(configs, potentialLang)
               THEN potentialLang ELSE Null
       ELSE Null

\* The first supported base subtag of navigator.languages, or null.
FirstSupportedOf(configs, langs) ==
    LET hits == {k \in 1..Len(langs) :
                    isLanguageSupported(configs, Split(langs[k], "-")[1])}
    IN IF hits = {} THEN Null
       ELSE Split(langs[CHOOSE k \in hits : \A j \in hits : k <= j], "-")[1]

\* The value detectLanguage assigns to currentLanguage.
detectLanguage_storedFirst(configs, query, path, stored, nav) ==
    LET urlLang     == SearchParamsGet(query, lang)
        pathLang    == extractLanguageFromPath(configs, path)
        browserLang == Split(nav.language, "-")[1]
        listLang    == FirstSupportedOf(configs, nav.languages)
    IN IF Truthy(stored) /\ isLanguageSupported(configs, stored)
         THEN stored
       ELSE IF Truthy(urlLang) /\ isLanguageSupported(configs, urlLang)
         THEN urlLang
       ELSE IF Truthy(pathLang) /\ isLanguageSupported(configs, pathLang)
         THEN pathLang
       ELSE IF isLanguageSupported(configs, browserLang)
         THEN browserLang
       ELSE IF listLang # Null
         THEN listLang
       ELSE defaultLanguage

detectLanguage_uncheckedStored(configs, query, path, stored, nav) ==
    LET urlLang     == SearchParamsGet(query, lang)
        pathLang    == extractLanguageFromPath(configs, path)
        browserLang == Split(nav.language, "-")[1]
        listLang    == FirstSupportedOf(configs, nav.languages)
    IN IF Truthy(urlLang) /\ isLanguageSupported(configs, urlLang)
         THEN urlLang
       ELSE IF Truthy(pathLang) /\ isLanguageSupported(configs, pathLang)
         THEN pathLang
       ELSE IF Truthy(stored)
         THEN stored
       ELSE IF isLanguageSupported(configs, browserLang)
         THEN browserLang
       ELSE IF listLang # Null
         THEN listLang
       ELSE defaultLanguage

detectLanguage(configs, query, path, stored, nav) ==
    LET urlLang     == SearchParamsGet(query, lang)
        pathLang    == extractLanguageFromPath(configs, path)
        storedLang  == stored
        browserLang == Split(nav.language, "-")[1]
        listLang    == FirstSupportedOf(configs, nav.languages)
    IN IF Truthy(urlLang) /\ isLanguageSupported(configs, urlLang)
         THEN urlLang
       ELSE IF Truthy(pathLang) /\ isLanguageSupported(configs, pathLang)
         THEN pathLang
       ELSE IF Truthy(storedLang) /\ isLanguageSupported(configs, storedLang)
         THEN storedLang
       ELSE IF isLanguageSupported(configs, browserLang)
         THEN browserLang
       ELSE IF listLang # Null
         THEN listLang
       ELSE defaultLanguage

-----------------------------------------------------------------------------
(* Translation trees *)

\* interface Translation { [key: string]: string | Translation }
Str(v)     == [type |-> "string", value |-> v]
Obj(props) == [type |-> "object", props |-> props]

s_nav    == <<"n", "a", "v">>
s_home   == <<"h", "o", "m", "e">>
s_work   == <<"w", "o", "r", "k">>
s_common == <<"c", "o", "m", "m", "o", "n">>
s_close  == <<"c", "l", "o", "s", "e">>

k_nav_home     == <<"n", "a", "v", ".", "h", "o", "m", "e">>
k_nav_work     == <<"n", "a", "v", ".", "w", "o", "r", "k">>
k_common_close == <<"c", "o", "m", "m", "o", "n", ".", "c", "l", "o", "s", "e">>
k_nav          == <<"n", "a", "v">>
k_missing      == <<"a", ".", "b", ".", "m", "i", "s", "s", "i", "n", "g">>

v_Home    == <<"H", "o", "m", "e">>
v_Work    == <<"W", "o", "r", "k">>
v_Close   == <<"C", "l", "o", "s", "e">>
v_Inicio  == <<"I", "n", "i", "c", "i", "o">>
v_Trabajo == <<"T", "r", "a", "b", "a", "j", "o">>
v_Cerrar  == <<"C", "e", "r", "r", "a", "r">>
v_Accueil == <<"A", "c", "c", "u", "e", "i", "l">>
v_Travail == <<"T", "r", "a", "v", "a", "i", "l">>
v_Fermer  == <<"F", "e", "r", "m", "e", "r">>

\* The built-in tables of getInlineTranslations, abridged to the entries
\* nav.home, nav.work and common.close of each of the three tables.
InlineTable(home, work, close) ==
    Obj((s_nav :> Obj((s_home :> Str(home)) @@ (s_work :> Str(work))))
        @@ (s_common :> Obj((s_close :> Str(close)))))

inlineTranslations ==
    (en :> InlineTable(v_Home, v_Work, v_Close))
    @@ (es :> InlineTable(v_Inicio, v_Trabajo, v_Cerrar))
    @@ (fr :> InlineTable(v_Accueil, v_Travail, v_Fermer))

\* return translations[language] || translations.en
getInlineTranslations_emptyForOthers(language) ==
    IF language \in DOMAIN inlineTranslations
    THEN inlineTranslations[language]
    ELSE Obj(<<>>)

getInlineTranslations(language) ==
    IF language \in DOMAIN inlineTranslations
    THEN inlineTranslations[language]
    ELSE inlineTranslations[en]

\* The body of /src/data/i18n/<language>.json as the server delivers it: the
\* files are not part of the repository, so each is a tree whose leaves name
\* the language they belong to; the English file alone carries nav.work.
JsonFile(language) ==
    IF language = defaultLanguage
    THEN Obj((s_nav :> Obj((s_home :> Str(language \o <<":">> \o s_home))
                           @@ (s_work :> Str(language \o <<":">> \o s_work)))))
    ELSE Obj((s_nav :> Obj((s_home :> Str(language \o <<":">> \o s_home)))))

\* getTranslation: walk the dotted key through the tree of a language;
\* null unless the walk ends at a string.
getTranslation(trs, key, language) ==
    LET keys == Split(key, ".")
        RECURSIVE Walk(_, _)
        Walk(current, i) ==
            IF i > Len(keys)
            THEN IF current.type = "string" THEN current.value ELSE Null
            ELSE IF current.type = "object" /\ keys[i] \in DOMAIN current.props
            THEN Walk(current.props[keys[i]], i + 1)
            ELSE Null
    IN IF language \notin DOMAIN trs THEN Null ELSE Walk(trs[language], 1)

\* JavaScript \s, restricted to the characters the model uses.
IsSpace(c) == c \in {" ", "\t", "\n"}

\* The length of the match of {{\s*name\s*}} that starts at position i of s,
\* 0 when there is none.
PlaceholderAt(s, i, name) ==
    LET RECURSIVE SkipSpace(_)
        SkipSpace(j) == IF j <= Len(s) /\ IsSpace(s[j]) THEN SkipSpace(j + 1)
                        ELSE j
        a == i + 2
        RECURSIVE TryFrom(_)
        \* the regex backtracks over the leading \s*: the name may itself
        \* start with characters the \s* could have taken
        TryFrom(j) ==
            IF j > SkipSpace(a) THEN 0
            ELSE IF j + Len(name) - 1 <= Len(s)
                    /\ SubSeq(s, j, j + Len(name) - 1) = name
            THEN LET b == SkipSpace(j + Len(name))
                 IN IF b + 1 <= Len(s) /\ s[b] = "}" /\ s[b + 1] = "}"
                    THEN b + 2 - i
                    ELSE TryFrom(j + 1)
            ELSE TryFrom(j + 1)
    IN IF i + 1 <= Len(s) /\ s[i] = "{" /\ s[i + 1] = "{"
       THEN TryFrom(a) ELSE 0

\* translation.replace(new RegExp(`{{\\s*${placeholder}\\s*}}`, 'g'), value)
\* A string replacement value is a template (ECMAScript GetSubstitution): $$
\* is a dollar sign, $& the matched text, $` the text before the match and
\* $' the text after it; the pattern has no capture groups, so any other $
\* stands for itself.
GetSubstitution(s, position, length, value) ==
    LET RECURSIVE Go(_, _)
        Go(j, acc) ==
            IF j > Len(value) THEN acc
            ELSE IF value[j] = "$" /\ j < Len(value)
            THEN IF value[j + 1] = "$" THEN Go(j + 2, Append(acc, "$"))
                 ELSE IF value[j + 1] = "&"
                 THEN Go(j + 2, acc \o SubSeq(s, position, position + length - 1))
                 ELSE IF value[j + 1] = "`"
                 THEN Go(j + 2, acc \o SubSeq(s, 1, position - 1))
                 ELSE IF value[j + 1] = "'"
                 THEN Go(j + 2, acc \o SubSeq(s, position + length, Len(s)))
                 ELSE Go(j + 1, Append(acc, "$"))
            ELSE Go(j + 1, Append(acc, value[j]))
    IN Go(1, <<>>)

ReplacePlaceholder(s, name, value) ==
    LET RECURSIVE Go(_, _)
        Go(i, acc) ==
            IF i > Len(s) THEN acc
            ELSE LET n == PlaceholderAt(s, i, name)
                 IN IF n > 0
                    THEN Go(i + n, acc \o GetSubstitution(s, i, n, value))
                    ELSE Go(i + 1, Append(acc, s[i]))
    IN Go(1, <<>>)

\* Object.keys(interpolations).forEach(...): interpolations is a sequence of
\* [name, value] pairs in property order, or the empty sequence when absent.
ApplyInterpolations(s, interpolations) ==
    LET RECURSIVE Go(_, _)
        Go(k, acc) ==
            IF k > Len(interpolations) THEN acc
            ELSE Go(k + 1, ReplacePlaceholder(acc, interpolations[k].name,
                                              interpolations[k].value))
    IN Go(1, s)

\* t(key, interpolations)
t_noKeyFallback(trs, current, key, interpolations) ==
    LET first  == getTranslation(trs, key, current)
        second == IF ~Truthy(first) /\ current # defaultLanguage
                  THEN getTranslation(trs, key, defaultLanguage)
                  ELSE first
    IN ApplyInterpolations(second, interpolations)

t(trs, current, key, interpolations) ==
    LET first  == getTranslation(trs, key, current)
        second == IF ~Truthy(first) /\ current # defaultLanguage
                  THEN getTranslation(trs, key, defaultLanguage)
                  ELSE first
        third  == IF ~Truthy(second) THEN key ELSE second
    IN ApplyInterpolations(third, interpolations)

-----------------------------------------------------------------------------
(* The object and its page, as one record, for the synchronous code *)

\* The elements carrying data-i18n on the page.
PageKeys == {k_nav_home, k_nav_work}

World ==
    [currentLanguage |-> currentLanguage, translations |-> translations,
     isRTL |-> isRTL, initialized |-> initialized, pathname |-> pathname,
     storedLanguage |-> storedLanguage, document |-> document,
     events |-> events, switcherListeners |-> switcherListeners,
     consoleErrors |-> consoleErrors]

Commit(w) ==
    /\ currentLanguage' = w.currentLanguage
    /\ translations' = w.translations
    /\ isRTL' = w.isRTL
    /\ initialized' = w.initialized
    /\ pathname' = w.pathname
    /\ storedLanguage' = w.storedLanguage
    /\ document' = w.document
    /\ events' = w.events
    /\ switcherListeners' = w.switcherListeners
    /\ consoleErrors' = w.consoleErrors

\* this.translations.set(language, tree)
SetTranslations_dropsOthers(w, language, tree) ==
    [w EXCEPT !.translations = (language :> tree)]

SetTranslations(w, language, tree) ==
    [w EXCEPT !.translations =
        [l \in DOMAIN w.translations \cup {language} |->
            IF l = language THEN tree ELSE w.translations[l]]]

\* The path updateURL computes.
NewPath(w) ==
    LET currentPath == w.pathname
        currentLangInPath == extractLanguageFromPath(languageConfigs, currentPath)
    IN IF Truthy(currentLangInPath)
       THEN Replace(currentPath, <<"/">> \o currentLangInPath,
                    <<"/">> \o w.currentLanguage)
       ELSE IF w.currentLanguage # defaultLanguage
       THEN <<"/">> \o w.currentLanguage \o currentPath
       ELSE currentPath

\* updateURL: history.replaceState is called only when the path changes; the
\* search and hash parts are passed through as they are.
updateURL(w) == [w EXCEPT !.pathname = NewPath(w)]

updatePageDirection(w) ==
    LET config == ConfigGet(languageConfigs, w.currentLanguage)
    IN IF config # NoConfig
       THEN [w EXCEPT !.isRTL = (config.direction = "rtl"),
                      !.document.dir = config.direction,
                      !.document.lang = w.currentLanguage]
       ELSE w

updatePageContent(w) ==
    [w EXCEPT !.document.content =
        [k \in PageKeys |-> t(w.translations, w.currentLanguage, k, <<>>)]]

dispatchLanguageChangeEvent(w) ==
    [w EXCEPT !.events = Append(@,
        [language |-> w.currentLanguage,
         config   |-> ConfigGet(languageConfigs, w.currentLanguage),
         isRTL    |-> w.isRTL])]

getLocalizedURL(current, path, language) ==
    LET l == IF Truthy(language) THEN language ELSE current
    IN IF l = defaultLanguage THEN path ELSE <<"/">> \o l \o path

-----------------------------------------------------------------------------
(* Environment: the inputs a behaviour may start from and be driven by *)

p_root    == <<"/">>
p_work    == <<"/", "w", "o", "r", "k">>
p_fr_work == <<"/", "f", "r", "/", "w", "o", "r", "k">>
p_ar_work == <<"/", "a", "r", "/", "w", "o", "r", "k">>
p_esp     == <<"/", "e", "s", "p">>
p_de      == <<"/", "d", "e">>

q_none  == <<>>
q_es    == <<"?", "l", "a", "n", "g", "=", "e", "s">>
q_ar    == <<"?", "l", "a", "n", "g", "=", "a", "r">>
q_xx    == <<"?", "l", "a", "n", "g", "=", "x", "x">>
q_empty == <<"?", "l", "a", "n", "g", "=">>
q_ja    == <<"?", "r", "e", "f", "=", "1", "&", "l", "a", "n", "g", "=", "j", "a">>

n_enUS == <<"e", "n", "-", "U", "S">>
n_frFR == <<"f", "r", "-", "F", "R">>
n_arSA == <<"a", "r", "-", "S", "A">>
n_ptBR == <<"p", "t", "-", "B", "R">>
n_zhCN == <<"z", "h", "-", "C", "N">>

\* Arguments changeLanguage is called with: enabled codes with and without a
\* built-in table, the disabled code and a code the registry does not hold.
CallArguments == {en, fr, de, ar, xx}

\* How the fetch of a language file ends: an OK response whose body parses,
\* or a failure (a rejected fetch, a non-OK response and a body that is not
\* JSON all end in the same catch block, line 666).
FetchOutcomes == {"ok", "notOk"}

\* Which browser call of the switch raises: none, history.replaceState
\* (SecurityError) or localStorage.setItem (QuotaExceededError).
Faults == {"none", "replaceState", "setItem"}

Codes == {languages[k].code : k \in 1..Len(languages)}

-----------------------------------------------------------------------------
(* SonarNavigation (src/unnamed/part_000): the mobile menu and the page     *)
(* transition, as operators on one record                                    *)

h_root   == <<"/">>
h_work   == <<"/", "w", "o", "r", "k">>
h_about  == <<"/", "a", "b", "o", "u", "t">>
h_anchor == <<"#", "t", "o", "p">>
h_http   == <<"h", "t", "t", "p", ":", "/", "/", "x">>

\* String.prototype.startsWith
StartsWith(s, prefix) ==
    Len(s) >= Len(prefix) /\ SubSeq(s, 1, Len(prefix)) = prefix

\* The object after new SonarNavigation() on a page at '/': the field
\* initialisers of lines 11-12, and what the page shows.  gsap is whether
\* window.gsap is defined.
NewNavigation(gsap) ==
    [isMenuOpen |-> FALSE, isTransitioning |-> FALSE, gsap |-> gsap,
     menuOpenClass |-> FALSE,    \* body.mobile-menu-open and .nav-mobile.active
     menuDisplay |-> "none",     \* display of .nav-mobile
     menuClosing |-> FALSE,      \* the timeline of closeMobileMenu is running
     overlayShown |-> FALSE,     \* display of .page-transition-overlay
     transitionHref |-> Null,    \* href the transition timeline will assign
     locationHref |-> Null,      \* value assigned to window.location.href
     transitions |-> 0,          \* page transitions started
     defaultPrevented |-> FALSE, \* of the most recent click event
     lastHref |-> Null]          \* href of the most recent navigation request

openMobileMenu(n) ==
    IF ~n.gsap THEN n ELSE [n EXCEPT !.menuDisplay = "flex"]

closeMobileMenu(n) ==
    IF ~n.gsap THEN n ELSE [n EXCEPT !.menuClosing = TRUE]

toggleMobileMenu(n) ==
    IF n.isTransitioning THEN n
    ELSE LET n1 == [n EXCEPT !.isMenuOpen = ~n.isMenuOpen]
         IN IF ~n1.gsap THEN n1
            ELSE LET n2 == [n1 EXCEPT !.menuOpenClass = n1.isMenuOpen]
                 IN IF n2.isMenuOpen THEN openMobileMenu(n2)
                    ELSE closeMobileMenu(n2)

\* performPageTransition after its guard (lines 346-376).
\* createTransitionOverlay has appended the overlay in init(), so the
\* querySelector of line 359 finds it.
startPageTransition(n, href) ==
    LET n1 == [n EXCEPT !.isTransitioning = TRUE,
                        !.transitions = @ + 1]
    IN IF ~n1.gsap THEN [n1 EXCEPT !.locationHref = href]
       ELSE LET n2 == IF n1.isMenuOpen THEN toggleMobileMenu(n1) ELSE n1
            IN [n2 EXCEPT !.overlayShown = TRUE, !.transitionHref = href]

performPageTransition_noGuard(n, href) == startPageTransition(n, href)

performPageTransition(n, href) ==
    IF n.isTransitioning THEN n ELSE startPageTransition(n, href)

\* handleNavigation for a link whose href attribute is href (null when the
\* link has none) on a page whose location.pathname is '/'.
handleNavigation(n, href) ==
    LET n0 == [n EXCEPT !.lastHref = href, !.defaultPrevented = FALSE]
    IN IF href = Null \/ StartsWith(href, <<"#">>)
          \/ StartsWith(href, <<"h", "t", "t", "p">>)
          \/ StartsWith(href, <<"m", "a", "i", "l", "t", "o">>)
          \/ StartsWith(href, <<"t", "e", "l">>)
       THEN n0
       ELSE IF href = h_root
       THEN [n0 EXCEPT !.defaultPrevented = TRUE]
       ELSE LET n1 == [n0 EXCEPT !.defaultPrevented = TRUE]
            IN IF n1.isTransitioning THEN n1
               ELSE performPageTransition(n1, href)

handleResize(n, innerWidth) ==
    IF innerWidth > 768 /\ n.isMenuOpen THEN toggleMobileMenu(n) ELSE n

handleKeyboard(n, key) ==
    IF key = "Escape" /\ n.isMenuOpen THEN toggleMobileMenu(n) ELSE n

transitionToPage(n, href) ==
    performPageTransition([n EXCEPT !.lastHref = href], href)

-----------------------------------------------------------------------------
(* SonarPreloader (src/unnamed/part_002): asset tracking, the fallback      *)
(* timeout and the completion of the intro, as operators on one record      *)

\* Math.round(a / b * 100) for naturals a, b with b > 0.
RoundPercent(a, b) == (200 * a + b) \div (2 * b)

Min(a, b) == IF a < b THEN a ELSE b

\* updateProgress: the displayed percentage, and the first time it reaches
\* 100 the completion is scheduled (setTimeout, 1000 ms).
updateProgress(p) ==
    LET progress == Min(RoundPercent(p.assetsLoaded, p.totalAssets), 100)
        p1 == [p EXCEPT !.progressText = progress]
    IN IF p.assetsLoaded >= p.totalAssets /\ ~p1.loadingComplete
       THEN [p1 EXCEPT !.loadingComplete = TRUE,
                       !.completeTimers = @ + 1]
       ELSE p1

onAssetLoaded(p) ==
    updateProgress([p EXCEPT !.assetsLoaded = @ + 1])

\* The callback of the fallback timeout (lines 148-153).
fallbackTimeout_noForce(p) == p

fallbackTimeout(p) ==
    IF ~p.loadingComplete
    THEN updateProgress([p EXCEPT !.assetsLoaded = p.totalAssets])
    ELSE p

onWindowLoad(p) ==
    IF ~p.loadingComplete
    THEN [p EXCEPT !.loadingComplete = TRUE, !.completeTimers = @ + 1]
    ELSE p

\* completeIntro: this.container is assigned in createPreloaderHTML and
\* never cleared, so only a missing gsap makes it return early.
completeIntro(p) ==
    IF ~p.gsap THEN p
    ELSE updateProgress([p EXCEPT !.completeIntroCalls = @ + 1,
                                  !.exitTimelines = @ + 1])

revealMainSite(p) ==
    IF ~p.gsap THEN p
    ELSE [p EXCEPT !.preloaderActive = FALSE,
                   !.introCompleteEvents = @ + 1]

\* onComplete of the exit timeline (lines 334-337).
exitTimelineComplete(p) ==
    revealMainSite([p EXCEPT !.exitTimelines = @ - 1,
                             !.containerInDocument = FALSE])

visibilityChange(p, visibilityState) ==
    LET p1 == [p EXCEPT !.visibilityState = visibilityState]
    IN IF visibilityState = "visible" /\ p1.loadingComplete
       THEN completeIntro(p1) ELSE p1

forceComplete(p) ==
    IF ~p.loadingComplete
    THEN completeIntro([p EXCEPT !.loadingComplete = TRUE])
    ELSE p

\* The object after new SonarPreloader() on a page with `assets` images and
\* videos of which `complete` are already loaded: init() has run
\* trackAssetLoading, which counts the loaded ones at once.
NewPreloader(gsap, assets, complete) ==
    LET p0 == [loadingComplete |-> FALSE, assetsLoaded |-> 0,
               totalAssets |-> IF assets = 0 THEN 1 ELSE assets,
               gsap |-> gsap,
               pendingAssets |-> assets - complete, \* listeners not yet fired
               progressText |-> 0,          \* .progress-percentage, in percent
               completeTimers |-> 0,        \* pending setTimeout(completeIntro)
               fallbackPending |-> TRUE,    \* the 8000 ms timeout has not fired
               windowLoadPending |-> TRUE,  \* window 'load' has not fired
               exitTimelines |-> 0,         \* running exit timelines
               completeIntroCalls |-> 0,    \* completeIntro past its guard
               introCompleteEvents |-> 0,   \* 'sonar:intro-complete' dispatched
               containerInDocument |-> TRUE,
               preloaderActive |-> TRUE,    \* body.preloader-active
               visibilityState |-> "visible",
               visibilityChanges |-> 0]
        RECURSIVE Loaded(_, _)
        Loaded(p, k) == IF k = 0 THEN p ELSE Loaded(onAssetLoaded(p), k - 1)
    IN Loaded(p0, complete)

-----------------------------------------------------------------------------
(* SonarAnalytics (src/unnamed/part_001): initialisation and trackEvent     *)

\* The object after new SonarAnalytics(): initializeAnalytics is suspended
\* at its await of loadGA4Script.
NewAnalytics ==
    [initialized |-> FALSE,
     script |-> "loading",      \* the GA4 script: loading, loaded or failed
     hasSession |-> FALSE,      \* sessionData holds the keys of initializeSession
     events |-> <<>>,           \* sessionData.get('events'), by action
     gtagEvents |-> <<>>,       \* actions passed to window.gtag('event', ...)
     submitted |-> <<>>,        \* actions passed to trackEvent so far
     listeners |-> FALSE,       \* setupEventTracking has run
     consoleErrors |-> 0]

trackEvent(a, action) ==
    LET a1 == [a EXCEPT !.submitted = Append(@, action)]
    IN IF ~a1.initialized THEN a1
       ELSE [a1 EXCEPT !.gtagEvents = Append(@, action),
                       !.events = Append(@, action)]

initializeSession(a) ==
    trackEvent([a EXCEPT !.hasSession = TRUE, !.events = <<>>],
               "session_start")

\* initializeAnalytics from the return of its await to its end
\* (lines 52-69).
initializeAnalyticsAfterLoad(a) ==
    LET a1 == [a EXCEPT !.script = "loaded", !.listeners = TRUE]
    IN [initializeSession(a1) EXCEPT !.initialized = TRUE]

\* The catch block of initializeAnalytics (lines 70-72).
initializeAnalyticsCatch(a) ==
    [a EXCEPT !.script = "failed", !.consoleErrors = @ + 1]

-----------------------------------------------------------------------------
(* SonarCMS (src/src/enhanced-main.ts): the three cached loaders            *)

Datasets == {"projects", "team", "blog"}

\* Bodies the server can deliver for a dataset file: JSON objects, two
\* versions of each.
Payloads == {"v1", "v2"}
DataOf(dataset, payload) == [dataset |-> dataset, version |-> payload]

\* The structure a failed load returns.
EmptyData(dataset) == [dataset |-> dataset, version |-> "empty"]

NoData == [dataset |-> "", version |-> "null"]

\* The object after new SonarCMS(): initializeCache.
initializeCache(c) ==
    [c EXCEPT !.cache = [d \in Datasets |-> NoData]]

NewCMS ==
    [cache |-> [d \in Datasets |-> NoData],
     inFlight |-> <<>>,          \* datasets of the loads awaiting their fetch
     fetchCount |-> [d \in Datasets |-> 0],
     loads |-> 0,                \* load calls so far
     lastLoad |-> "",            \* dataset of the most recent load call
     lastReturn |-> NoData,      \* value the most recent load resolved to
     loadedSinceClear |-> [d \in Datasets |-> FALSE],
     consoleErrors |-> 0]

\* if (this.cache.get(dataset)): a JSON object is truthy, null is not.
cacheHit_never(c, dataset) == FALSE

cacheHit(c, dataset) == c.cache[dataset] # NoData

\* loadProjects, loadTeam, loadBlog up to the await of fetch.
loadStart(c, dataset) ==
    LET c1 == [c EXCEPT !.loads = @ + 1, !.lastLoad = dataset]
    IN IF cacheHit(c1, dataset)
       THEN [c1 EXCEPT !.lastReturn = c1.cache[dataset]]
       ELSE [c1 EXCEPT !.inFlight = Append(@, dataset),
                       !.fetchCount[dataset] = @ + 1]

\* ... and from the end of the fetch on: outcome is "ok" or "notOk".
loadFinish(c, i, outcome, payload) ==
    LET dataset == c.inFlight[i]
        c1 == [c EXCEPT !.inFlight = RemoveAt(@, i)]
    IN IF outcome = "ok"
       THEN [c1 EXCEPT !.cache[dataset] = DataOf(dataset, payload),
                       !.lastReturn = DataOf(dataset, payload),
                       !.loadedSinceClear[dataset] = TRUE]
       ELSE [c1 EXCEPT !.consoleErrors = @ + 1,
                       !.lastReturn = EmptyData(dataset)]

clearCache(c) ==
    [initializeCache(c) EXCEPT
         !.loadedSinceClear = [d \in Datasets |-> FALSE]]

\* The objects of the page other than SonarI18n, after construction.
InitPage ==
    /\ navigation = NewNavigation(TRUE)
    /\ preloader = NewPreloader(TRUE, 0, 0)
    /\ analytics = NewAnalytics
    /\ cms = NewCMS

-----------------------------------------------------------------------------
(* Initial states: the field initialisers of the class, lines 470-476 *)

\* No call of t() yet.
NoCallOfT == [key |-> Null, interpolations |-> <<>>, result |-> Null]

InitObject ==
    /\ constructed = FALSE
    /\ currentLanguage = en
    /\ translations = <<>>
    /\ languageConfigs = <<>>
    /\ isRTL = FALSE
    /\ initialized = FALSE
    /\ document = [dir |-> "", lang |-> <<>>,
                   content |-> [k \in PageKeys |-> <<>>]]
    /\ events = <<>>
    /\ tasks = <<>>
    /\ fetchCount = [c \in Codes |-> 0]
    /\ calls = 0
    /\ lastCall = [language |-> Null, accepted |-> FALSE, previous |-> Null]
    /\ initializeCalled = FALSE
    /\ switcherListeners = 0
    /\ consoleErrors = 0
    /\ resolved = NoCallOfT

Init ==
    /\ InitObject
    /\ InitPage
    /\ pathname \in {p_root, p_fr_work}
    /\ search \in {q_none}
    /\ storedLanguage \in {Null, de}
    /\ navigator \in {[language |-> n_enUS, languages |-> <<n_enUS>>]}

InitDetect ==
    /\ InitObject
    /\ InitPage
    /\ pathname \in {p_root, p_work, p_fr_work, p_ar_work, p_esp, p_de}
    /\ search \in {q_none, q_es, q_ar, q_xx, q_empty, q_ja}
    /\ storedLanguage \in {Null, <<>>, de, ar, xx}
    /\ navigator \in
         [language  : {n_enUS, n_frFR, n_arSA, n_ptBR},
          languages : {<<n_ptBR>>, <<n_arSA, n_zhCN, n_frFR>>,
                       <<n_ptBR, n_frFR, n_zhCN>>}]

s_greeting == <<"g", "r", "e", "e", "t", "i", "n", "g">>
k_greeting == s_greeting
k_nav_home_work == <<"n", "a", "v", ".", "h", "o", "m", "e", ".", "w", "o", "r", "k">>

\* A leaf with placeholders: one bare, one with whitespace inside the
\* braces, one whose name differs in case, one with another name.
v_template == <<"{", "{", "n", "}", "}", " ", "{", "{", " ", "n", " ", "}", "}", "{", "{", "N", "}", "}", "{", "{", "x", "}", "}">>

\* Trees a language file can deliver to the resolver: nav.home is missing
\* ("absent"), the empty string ("empty") or a text ("text").
ResolverTree(language, home) ==
    LET work == (s_work :> Str(language \o <<":">> \o s_work))
        nav  == IF home = "absent" THEN work
                ELSE IF home = "empty" THEN (s_home :> Str(<<>>)) @@ work
                ELSE (s_home :> Str(language \o <<":">> \o s_home)) @@ work
    IN Obj((s_nav :> Obj(nav)) @@ (s_greeting :> Str(v_template)))

ResolverTrees(language) ==
    {ResolverTree(language, home) : home \in {"absent", "empty", "text"}}

\* The translations maps over the active and the default language: each
\* tree is loaded or not.
ResolverMaps ==
    LET Entries(language) ==
            {<<>>} \cup {(language :> tree) : tree \in ResolverTrees(language)}
    IN {a @@ b : a \in Entries(fr), b \in Entries(en)}

ResolverKeys ==
    {k_nav_home, k_nav_work, k_nav, k_nav_home_work, k_missing, k_greeting}

\* Interpolation maps, as [name, value] pairs in property order; the empty
\* sequence is a call without the second argument.
ResolverInterpolations ==
    { <<>>,
      <<[name |-> <<"n">>, value |-> <<"A", "n", "n">>]>>,
      <<[name |-> <<"N">>, value |-> <<"B", "o", "b">>]>>,
      <<[name |-> <<"n">>, value |-> <<"A", "n", "n">>], [name |-> <<"x">>, value |-> <<"Y">>]>>,
      <<[name |-> <<"n">>, value |-> <<"{", "{", "t", "}", "}">>], [name |-> <<"t">>, value |-> <<"D", "r">>]>>,
      <<[name |-> <<"n">>, value |-> <<"$", "&">>]>>,
      <<[name |-> <<"n">>, value |-> <<"5", "$", "$">>]>> }

\* The object at a time when t() can be called: constructed, with each of
\* the two trees loaded or not.
InitResolve ==
    /\ constructed = TRUE
    /\ currentLanguage \in {en, fr}
    /\ translations \in ResolverMaps
    /\ languageConfigs = languages
    /\ isRTL = FALSE
    /\ initialized = ({currentLanguage, defaultLanguage} \subseteq DOMAIN translations)
    /\ pathname = p_root
    /\ search = q_none
    /\ storedLanguage = Null
    /\ navigator = [language |-> n_enUS, languages |-> <<n_enUS>>]
    /\ document = [dir |-> "", lang |-> <<>>,
                   content |-> [k \in PageKeys |-> <<>>]]
    /\ events = <<>>
    /\ tasks = <<>>
    /\ fetchCount = [c \in Codes |-> 0]
    /\ calls = 0
    /\ lastCall = [language |-> Null, accepted |-> FALSE, previous |-> Null]
    /\ initializeCalled = FALSE
    /\ switcherListeners = 0
    /\ consoleErrors = 0
    /\ resolved = NoCallOfT
    /\ InitPage

-----------------------------------------------------------------------------
(* Asynchronous calls *)

Task(op, owner, language, previous, stage) ==
    [op |-> op, owner |-> owner, language |-> language,
     previousLanguage |-> previous, stage |-> stage]

\* loadLanguageTranslations once its fetch has ended: the parsed file on
\* success, the built-in table from the catch block otherwise.
loadLanguageTranslations(w, language, outcome) ==
    IF outcome = "ok"
    THEN SetTranslations(w, language, JsonFile(language))
    ELSE SetTranslations(w, language, getInlineTranslations(language))

\* fetch(`/src/data/i18n/${language}.json`) (line 659): one more request for
\* the file of the language, whatever the translations map holds.
Fetch_cacheHit(count, language) ==
    IF language \in DOMAIN translations THEN count
    ELSE [count EXCEPT ![language] = @ + 1]

Fetch(count, language) == [count EXCEPT ![language] = @ + 1]

\* The early return of changeLanguage (line 861).
changeLanguageReturnsEarly_noSameCheck(configs, current, language) ==
    ~isLanguageSupported(configs, language)

changeLanguageReturnsEarly_noSupportCheck(configs, current, language) ==
    language = current

changeLanguageReturnsEarly(configs, current, language) ==
    ~isLanguageSupported(configs, language) \/ language = current

\* this.currentLanguage = language (line 866), before the load is awaited.
changeLanguageAssign_afterLoad(current, language) == current

changeLanguageAssign(current, language) == language

\* The catch block of changeLanguage (lines 886-889).
changeLanguageCatch_noRollback(w, task) ==
    [w EXCEPT !.consoleErrors = @ + 1]

changeLanguageCatch(w, task) ==
    [w EXCEPT !.consoleErrors = @ + 1,
              !.currentLanguage = task.previousLanguage]

\* changeLanguage from the return of its await to its end (lines 871-889).
changeLanguageAfterLoad(w, task, fault) ==
    IF fault = "replaceState" /\ NewPath(w) # w.pathname
    THEN changeLanguageCatch(w, task)
    ELSE LET w1 == updatePageDirection(updateURL(w))
         IN IF fault = "setItem"
            THEN changeLanguageCatch(w1, task)
            ELSE dispatchLanguageChangeEvent(updatePageContent(
                     [w1 EXCEPT !.storedLanguage = task.language]))

\* if (this.currentLanguage !== this.defaultLanguage) (line 635), asked when
\* the load of the main language has returned: the default language is
\* loaded next.
loadsFallbackNext_never(w, task) == FALSE

loadsFallbackNext(w, task) ==
    task.stage = "main" /\ w.currentLanguage # defaultLanguage

\* loadTranslations from the return of its last await to its end
\* (lines 639-643), followed by the rest of initialize() when that is the
\* caller (lines 1159-1160).
loadTranslationsFinish_resetsLanguage(w, task) ==
    LET w1 == dispatchLanguageChangeEvent(
                  [updatePageDirection([w EXCEPT !.currentLanguage = defaultLanguage])
                       EXCEPT !.initialized = TRUE])
    IN IF task.owner = "initialize"
       THEN [updatePageContent(w1) EXCEPT !.switcherListeners = @ + 1]
       ELSE w1

loadTranslationsFinish(w, task) ==
    LET w1 == dispatchLanguageChangeEvent(
                  [updatePageDirection(w) EXCEPT !.initialized = TRUE])
    IN IF task.owner = "initialize"
       THEN [updatePageContent(w1) EXCEPT !.switcherListeners = @ + 1]
       ELSE w1

-----------------------------------------------------------------------------
(* Actions *)

\* const i18n = new SonarI18n(): initializeLanguages, detectLanguage and
\* loadTranslations up to its first await.
Construct ==
    /\ ~constructed
    /\ constructed' = TRUE
    /\ languageConfigs' = languages
    /\ currentLanguage' =
           detectLanguage(languages, search, pathname, storedLanguage, navigator)
    /\ tasks' = Append(tasks, Task("loadTranslations", "constructor",
                                   currentLanguage', Null, "main"))
    /\ fetchCount' = Fetch(fetchCount, currentLanguage')
    /\ UNCHANGED <<translations, isRTL, initialized, pathname, search,
                   storedLanguage, navigator, document, events, calls,
                   lastCall, initializeCalled, switcherListeners, consoleErrors,
                   resolved,
                   pageVars>>

\* initialize() up to the first await of its loadTranslations.  The
\* application calls it once, from initializeCoreServices
\* (enhanced-main.ts:91), at any time after the module has been loaded.
Initialize ==
    /\ constructed
    /\ ~initializeCalled
    /\ initializeCalled' = TRUE
    /\ IF initialized
       THEN UNCHANGED <<tasks, fetchCount>>
       ELSE /\ tasks' = Append(tasks, Task("loadTranslations", "initialize",
                                           currentLanguage, Null, "main"))
            /\ fetchCount' = Fetch(fetchCount, currentLanguage)
    /\ UNCHANGED <<constructed, currentLanguage, translations, languageConfigs,
                   isRTL, initialized, pathname, search, storedLanguage,
                   navigator, document, events, calls, lastCall,
                   switcherListeners, consoleErrors, resolved,
                   pageVars>>

\* A click on a .language-option element whose data-language is language:
\* the listener installed by initializeLanguageSwitcher, the only caller of
\* changeLanguage in the repository (line 1127), runs changeLanguage(language)
\* up to its await.
ChangeLanguage(language) ==
    /\ constructed
    /\ switcherListeners > 0
    /\ calls < MaxCalls
    /\ calls' = calls + 1
    /\ LET early == changeLanguageReturnsEarly(languageConfigs,
                                               currentLanguage, language)
       IN /\ lastCall' = [language |-> language, accepted |-> ~early,
                          previous |-> currentLanguage]
          /\ IF early
             THEN UNCHANGED <<currentLanguage, tasks, fetchCount>>
             ELSE /\ currentLanguage' = changeLanguageAssign(currentLanguage, language)
                  /\ tasks' = Append(tasks, Task("changeLanguage", "caller",
                                         language, currentLanguage, "main"))
                  /\ fetchCount' = Fetch(fetchCount, language)
    /\ UNCHANGED <<constructed, translations, languageConfigs, isRTL,
                   initialized, pathname, search, storedLanguage, navigator,
                   document, events, initializeCalled, switcherListeners,
                   consoleErrors, resolved,
                   pageVars>>

\* The fetch of a suspended changeLanguage ends and the call runs to its end.
ChangeLanguageResumes(i, outcome, fault) ==
    /\ i \in 1..Len(tasks)
    /\ tasks[i].op = "changeLanguage"
    /\ Commit(changeLanguageAfterLoad(
           loadLanguageTranslations(World, tasks[i].language, outcome),
           tasks[i], fault))
    /\ tasks' = RemoveAt(tasks, i)
    /\ UNCHANGED <<constructed, languageConfigs, search, navigator, fetchCount,
                   calls, lastCall, initializeCalled, resolved,
                   pageVars>>

\* The fetch of a suspended loadTranslations ends: the call goes on to load
\* the default language, or runs to its end.  currentLanguage is read when
\* the call resumes (line 635).  loadLanguageTranslations catches its own
\* failures, so nothing in the try block raises and the catch block
\* (lines 644-651) is not entered.
LoadTranslationsResumes(i, outcome) ==
    /\ i \in 1..Len(tasks)
    /\ tasks[i].op = "loadTranslations"
    /\ LET w == loadLanguageTranslations(World, tasks[i].language, outcome)
       IN IF loadsFallbackNext(w, tasks[i])
          THEN /\ Commit(w)
               /\ tasks' = [tasks EXCEPT ![i].stage = "fallback",
                                         ![i].language = defaultLanguage]
               /\ fetchCount' = Fetch(fetchCount, defaultLanguage)
          ELSE /\ Commit(loadTranslationsFinish(w, tasks[i]))
               /\ tasks' = RemoveAt(tasks, i)
               /\ UNCHANGED fetchCount
    /\ UNCHANGED <<constructed, languageConfigs, search, navigator, calls,
                   lastCall, initializeCalled, resolved,
                   pageVars>>

Next ==
    \/ Construct
    \/ Initialize
    \/ \E language \in CallArguments : ChangeLanguage(language)
    \/ \E i \in 1..(MaxCalls + 2), outcome \in FetchOutcomes,
          fault \in Faults : ChangeLanguageResumes(i, outcome, fault)
    \/ \E i \in 1..(MaxCalls + 2), outcome \in FetchOutcomes :
          LoadTranslationsResumes(i, outcome)

Spec == Init /\ [][Next]_vars

NextDetect == Construct

\* A page session with one click on the language switcher, over a wider set
\* of starting URLs and stored preferences.
InitRoundTrip ==
    /\ InitObject
    /\ InitPage
    /\ pathname \in {p_root, p_work, p_fr_work, p_de}
    /\ search \in {q_none, q_es, q_xx, q_ar}
    /\ storedLanguage \in {Null, de, fr}
    /\ navigator \in {[language |-> n_enUS, languages |-> <<n_enUS>>],
                      [language |-> n_frFR, languages |-> <<n_frFR>>]}

ChangeLanguageOnce(language) ==
    /\ calls = 0
    /\ ChangeLanguage(language)

NextRoundTrip ==
    \/ Construct
    \/ Initialize
    \/ \E language \in CallArguments : ChangeLanguageOnce(language)
    \/ \E i \in 1..3, outcome \in FetchOutcomes, fault \in Faults :
          ChangeLanguageResumes(i, outcome, fault)
    \/ \E i \in 1..3, outcome \in FetchOutcomes :
          LoadTranslationsResumes(i, outcome)

SpecRoundTrip == InitRoundTrip /\ [][NextRoundTrip]_vars

\* A call of t(key, interpolations): synchronous, it returns within the step.
CallT(key, interpolations) ==
    /\ constructed
    /\ resolved' = [key |-> key, interpolations |-> interpolations,
                    result |-> t(translations, currentLanguage, key,
                                 interpolations)]
    /\ UNCHANGED <<constructed, currentLanguage, translations, languageConfigs,
                   isRTL, initialized, pathname, search, storedLanguage,
                   navigator, document, events, tasks, fetchCount, calls,
                   lastCall, initializeCalled, switcherListeners, consoleErrors,
                   pageVars>>

NextResolve ==
    \E key \in ResolverKeys, interpolations \in ResolverInterpolations :
        CallT(key, interpolations)

SpecResolve == InitResolve /\ [][NextResolve]_vars

SpecDetect == InitDetect /\ [][NextDetect]_vars

TypeOK ==
    /\ constructed \in BOOLEAN
    /\ initialized \in BOOLEAN
    /\ calls \in 0..MaxCalls

-----------------------------------------------------------------------------
(* Actions of SonarNavigation *)

Hrefs == {Null, h_root, h_work, h_about, h_anchor, h_http}

\* A page with a SonarNavigation object and an untouched SonarI18n module.
InitNavigation ==
    /\ InitObject
    /\ pathname = p_root
    /\ search = q_none
    /\ storedLanguage = Null
    /\ navigator = [language |-> n_enUS, languages |-> <<n_enUS>>]
    /\ navigation \in {NewNavigation(gsap) : gsap \in BOOLEAN}
    /\ preloader = NewPreloader(TRUE, 0, 0)
    /\ analytics = NewAnalytics
    /\ cms = NewCMS

\* A click on .mobile-menu-btn (lines 47-50).
MenuToggleClick ==
    /\ navigation' = toggleMobileMenu(navigation)
    /\ UNCHANGED <<i18nVars, preloader, analytics, cms>>

\* A click on a navigation link (lines 54-56).  Counting stops at
\* MaxTransitions.
NavLinkClick(href) ==
    /\ navigation.transitions < MaxTransitions
    /\ navigation' = handleNavigation(navigation, href)
    /\ UNCHANGED <<i18nVars, preloader, analytics, cms>>

\* A call of the public transitionToPage(href).
TransitionToPage(href) ==
    /\ navigation.transitions < MaxTransitions
    /\ navigation' = transitionToPage(navigation, href)
    /\ UNCHANGED <<i18nVars, preloader, analytics, cms>>

\* A resize event with window.innerWidth = innerWidth.
Resize(innerWidth) ==
    /\ navigation' = handleResize(navigation, innerWidth)
    /\ UNCHANGED <<i18nVars, preloader, analytics, cms>>

\* A keydown event.
KeyDown(key) ==
    /\ navigation' = handleKeyboard(navigation, key)
    /\ UNCHANGED <<i18nVars, preloader, analytics, cms>>

\* The timeline of closeMobileMenu completes (lines 296-298).
MenuTimelineComplete ==
    /\ navigation.menuClosing
    /\ navigation' = [navigation EXCEPT !.menuClosing = FALSE,
                                        !.menuDisplay = "none"]
    /\ UNCHANGED <<i18nVars, preloader, analytics, cms>>

\* The timeline of the page transition completes (lines 366-368).
TransitionTimelineComplete ==
    /\ navigation.transitionHref # Null
    /\ navigation.locationHref = Null
    /\ navigation' = [navigation EXCEPT
                          !.locationHref = navigation.transitionHref]
    /\ UNCHANGED <<i18nVars, preloader, analytics, cms>>

NextNavigation ==
    \/ MenuToggleClick
    \/ \E href \in Hrefs : NavLinkClick(href)
    \/ \E href \in Hrefs \ {Null} : TransitionToPage(href)
    \/ \E innerWidth \in {375, 1024} : Resize(innerWidth)
    \/ \E key \in {"Escape", "Enter"} : KeyDown(key)
    \/ MenuTimelineComplete
    \/ TransitionTimelineComplete

SpecNavigation == InitNavigation /\ [][NextNavigation]_vars

-----------------------------------------------------------------------------
(* Actions of SonarPreloader *)

\* An untouched SonarI18n module on a page at '/'.
InitI18nIdle ==
    /\ InitObject
    /\ pathname = p_root
    /\ search = q_none
    /\ storedLanguage = Null
    /\ navigator = [language |-> n_enUS, languages |-> <<n_enUS>>]

\* A page with up to two images or videos, some of them loaded when the
\* preloader is constructed.
InitPreloader ==
    /\ InitI18nIdle
    /\ navigation = NewNavigation(TRUE)
    /\ analytics = NewAnalytics
    /\ cms = NewCMS
    /\ preloader \in {NewPreloader(gsap, n[1], n[2]) :
                         gsap \in BOOLEAN,
                         n \in {m \in (0..2) \X (0..2) : m[2] <= m[1]}}

\* load, error or canplaythrough of a tracked asset (lines 130-131, 140-141).
AssetLoaded ==
    /\ preloader.pendingAssets > 0
    /\ preloader' = onAssetLoaded([preloader EXCEPT !.pendingAssets = @ - 1])
    /\ UNCHANGED <<i18nVars, navigation, analytics, cms>>

\* The window load event (lines 102-104).
WindowLoad ==
    /\ preloader.windowLoadPending
    /\ preloader' = onWindowLoad([preloader EXCEPT !.windowLoadPending = FALSE])
    /\ UNCHANGED <<i18nVars, navigation, analytics, cms>>

\* The fallback timeout fires (lines 148-153).
FallbackTimeout ==
    /\ preloader.fallbackPending
    /\ preloader' = fallbackTimeout([preloader EXCEPT !.fallbackPending = FALSE])
    /\ UNCHANGED <<i18nVars, navigation, analytics, cms>>

\* A timeout set by updateProgress or onWindowLoad fires.
CompleteTimer ==
    /\ preloader.completeTimers > 0
    /\ preloader' = completeIntro([preloader EXCEPT !.completeTimers = @ - 1])
    /\ UNCHANGED <<i18nVars, navigation, analytics, cms>>

\* A visibilitychange event (lines 107-111).
VisibilityChange ==
    /\ preloader.visibilityChanges < MaxVisibilityChanges
    /\ preloader' = visibilityChange(
           [preloader EXCEPT !.visibilityChanges = @ + 1],
           IF preloader.visibilityState = "visible" THEN "hidden" ELSE "visible")
    /\ UNCHANGED <<i18nVars, navigation, analytics, cms>>

\* A call of the public forceComplete().
ForceComplete ==
    /\ preloader' = forceComplete(preloader)
    /\ UNCHANGED <<i18nVars, navigation, analytics, cms>>

\* An exit timeline completes.
ExitTimelineComplete ==
    /\ preloader.exitTimelines > 0
    /\ preloader' = exitTimelineComplete(preloader)
    /\ UNCHANGED <<i18nVars, navigation, analytics, cms>>

NextPreloader ==
    \/ AssetLoaded
    \/ WindowLoad
    \/ FallbackTimeout
    \/ CompleteTimer
    \/ VisibilityChange
    \/ ForceComplete
    \/ ExitTimelineComplete

SpecPreloader == InitPreloader /\ [][NextPreloader]_vars

\* A timeout that has been set fires: the fallback of 8000 ms is taken.
SpecPreloaderFair == SpecPreloader /\ WF_vars(FallbackTimeout)

-----------------------------------------------------------------------------
(* Actions of SonarAnalytics *)

EventActions == {"page_view", "click", "scroll"}

InitAnalytics ==
    /\ InitI18nIdle
    /\ navigation = NewNavigation(TRUE)
    /\ preloader = NewPreloader(TRUE, 0, 0)
    /\ cms = NewCMS
    /\ analytics = NewAnalytics

\* script.onload, or gtag was already defined: initializeAnalytics resumes.
ScriptLoaded ==
    /\ analytics.script = "loading"
    /\ analytics' = initializeAnalyticsAfterLoad(analytics)
    /\ UNCHANGED <<i18nVars, navigation, preloader, cms>>

\* script.onerror
ScriptError ==
    /\ analytics.script = "loading"
    /\ analytics' = initializeAnalyticsCatch(analytics)
    /\ UNCHANGED <<i18nVars, navigation, preloader, cms>>

\* A call of trackEvent by the application or by a listener.
TrackEvent(action) ==
    /\ Len(analytics.submitted) < MaxEvents + 1
    /\ analytics' = trackEvent(analytics, action)
    /\ UNCHANGED <<i18nVars, navigation, preloader, cms>>

NextAnalytics ==
    \/ ScriptLoaded
    \/ ScriptError
    \/ \E action \in EventActions : TrackEvent(action)

SpecAnalytics == InitAnalytics /\ [][NextAnalytics]_vars

-----------------------------------------------------------------------------
(* Actions of SonarCMS *)

InitCMS ==
    /\ InitI18nIdle
    /\ navigation = NewNavigation(TRUE)
    /\ preloader = NewPreloader(TRUE, 0, 0)
    /\ analytics = NewAnalytics
    /\ cms = NewCMS

\* A call of loadProjects, loadTeam or loadBlog.
Load(dataset) ==
    /\ cms.loads < MaxLoads
    /\ cms' = loadStart(cms, dataset)
    /\ UNCHANGED <<i18nVars, navigation, preloader, analytics>>

\* The fetch of a suspended load ends.
LoadResumes(i, outcome, payload) ==
    /\ i \in 1..Len(cms.inFlight)
    /\ cms' = loadFinish(cms, i, outcome, payload)
    /\ UNCHANGED <<i18nVars, navigation, preloader, analytics>>

ClearCache ==
    /\ cms' = clearCache(cms)
    /\ UNCHANGED <<i18nVars, navigation, preloader, analytics>>

NextCMS ==
    \/ \E dataset \in Datasets : Load(dataset)
    \/ \E i \in 1..MaxLoads, outcome \in FetchOutcomes, payload \in Payloads :
          LoadResumes(i, outcome, payload)
    \/ ClearCache

SpecCMS == InitCMS /\ [][NextCMS]_vars

-----------------------------------------------------------------------------
(* Properties *)

\* The codes the registry holds with enabled = true, read off the table.
EnabledCodes == {languages[k].code : k \in {j \in 1..Len(languages) :
                                               languages[j].enabled}}

\* A changeLanguage call is suspended at its await.
Switching == \E i \in 1..Len(tasks) : tasks[i].op = "changeLanguage"

\* This step is an invocation of changeLanguage.
CallStep == calls' = calls + 1

\* The state a switch may touch.
engineState == <<currentLanguage, translations, isRTL, storedLanguage,
                 pathname, search, document, tasks, fetchCount, events,
                 consoleErrors>>

\* C1: a changeLanguage call issued while an earlier call is still awaiting
\* its load is a no-op: it changes no engine state and starts no load.
C1_ReentrantCallIsNoOp ==
    [][(CallStep /\ Switching) => UNCHANGED engineState]_vars

C3_TreeLoadedWhenNotified ==
    [][Len(events') > Len(events)
          => currentLanguage' \in DOMAIN translations']_vars

\* C4 (as claimed): the fetch collaborator is invoked at most once for each
\* locale code.
C4_FetchAtMostOncePerCode ==
    \A c \in Codes : fetchCount[c] <= 1

\* A load of code c starts in this step: a new call is suspended on it, or a
\* suspended loadTranslations goes on to the default language.
StartsLoad(c) ==
    \/ /\ Len(tasks') = Len(tasks) + 1
       /\ tasks'[Len(tasks')].language = c
    \/ /\ Len(tasks') = Len(tasks)
       /\ c = defaultLanguage
       /\ \E i \in 1..Len(tasks) :
              tasks[i].stage = "main" /\ tasks'[i].stage = "fallback"

\* The load task i is suspended on ends in this step.
EndsLoad(i) ==
    /\ i \in 1..Len(tasks)
    /\ \/ tasks' = RemoveAt(tasks, i)
       \/ /\ Len(tasks') = Len(tasks)
          /\ tasks[i].stage = "main" /\ tasks'[i].stage = "fallback"

\* C4 (amended): every load of a code, of an already loaded code too,
\* invokes the fetch collaborator exactly once, and when it ends the stored
\* tree of that code is replaced by its result: the fetched file, or the
\* built-in table when the fetch failed.
C4_EveryLoadFetches ==
    [][/\ \A c \in Codes :
              fetchCount'[c] = fetchCount[c] + (IF StartsLoad(c) THEN 1 ELSE 0)
       /\ \A i \in 1..Len(tasks) :
              EndsLoad(i) =>
                  /\ tasks[i].language \in DOMAIN translations'
                  /\ translations'[tasks[i].language] \in
                         {JsonFile(tasks[i].language),
                          getInlineTranslations(tasks[i].language)}]_vars

C4_Witness ==
    \E c \in Codes : fetchCount[c] >= 2 /\ c \in DOMAIN translations

\* C5: when a step of an accepted changeLanguage raises, the call returns
\* with the active locale it found when it was invoked, it is no longer
\* in progress, and no languageChanged event was dispatched for it.
C5_RollbackOnFailure ==
    [][consoleErrors' > consoleErrors
          => \E i \in 1..Len(tasks) :
                 /\ tasks[i].op = "changeLanguage"
                 /\ tasks' = RemoveAt(tasks, i)
                 /\ currentLanguage' = tasks[i].previousLanguage
                 /\ events' = events]_vars

C5_Witness ==
    /\ consoleErrors > 0
    /\ tasks = <<>>
    /\ currentLanguage = lastCall.previous
    /\ lastCall.accepted

\* C6: changeLanguage(c) with c the active locale changes nothing: active
\* locale, trees, direction, stored preference and URL stay, no fetch is
\* issued and no event is dispatched.
C6_SameLocaleIsNoOp ==
    [][(CallStep /\ lastCall'.language = currentLanguage)
          => UNCHANGED engineState]_vars

C6_Witness ==
    /\ calls > 0
    /\ lastCall.language = lastCall.previous
    /\ ~lastCall.accepted

\* C7: changeLanguage(c) with c absent from the registry or disabled is a
\* silent no-op: nothing is raised, active locale, trees, stored preference
\* and URL stay, no fetch is issued and no event is dispatched.
C7_UnsupportedLocaleIsNoOp ==
    [][(CallStep /\ lastCall'.language \notin EnabledCodes)
          => UNCHANGED engineState]_vars

C7_Witness ==
    /\ calls > 0
    /\ lastCall.language = ar
    /\ ~lastCall.accepted

\* The candidates of the environment in the order of precedence: the lang
\* query parameter, the first non-empty path segment when it has two
\* characters, the stored preference, the base subtag of navigator.language,
\* the base subtags of navigator.languages.
FirstSegment ==
    LET segs == FilterBoolean(Split(pathname, "/"))
    IN IF Len(segs) > 0 /\ Len(segs[1]) = 2 THEN segs[1] ELSE Null

Candidates ==
    <<SearchParamsGet(search, lang), FirstSegment, storedLanguage,
      Split(navigator.language, "-")[1]>>
    \o [k \in 1..Len(navigator.languages) |->
            Split(navigator.languages[k], "-")[1]]

EnabledCandidates == SelectSeq(Candidates, LAMBDA c : c \in EnabledCodes)

\* C8: detection returns the first supported candidate in the order query
\* parameter, path segment, stored preference, primary browser language,
\* remaining browser languages.
C8_DetectionPrecedence ==
    (constructed /\ Len(EnabledCandidates) > 0)
        => currentLanguage = EnabledCandidates[1]

C8_Witness ==
    /\ constructed
    /\ search = q_es /\ pathname = p_fr_work /\ storedLanguage = de
    /\ navigator.language = n_frFR
    /\ currentLanguage = es

\* C9: detection never yields an unsupported code, and yields the default
\* locale when no candidate is supported.
C9_DetectionSupported ==
    constructed
        => /\ currentLanguage \in EnabledCodes
           /\ Len(EnabledCandidates) = 0 => currentLanguage = defaultLanguage

C9_Witness ==
    /\ constructed
    /\ search = q_ar /\ pathname = p_ar_work /\ storedLanguage = xx
    /\ navigator.language = n_arSA /\ navigator.languages = <<n_ptBR>>
    /\ currentLanguage = en

\* C10: the active locale is at all times a code the registry holds with
\* enabled = true.
C10_ActiveLocaleEnabled ==
    currentLanguage \in EnabledCodes

C10_Witness ==
    /\ consoleErrors > 0
    /\ initialized
    /\ lastCall.language = xx
    /\ currentLanguage # defaultLanguage

\* The changeLanguage call suspended as task i runs to its end in this step
\* without raising.
Completes(i) ==
    /\ i \in 1..Len(tasks)
    /\ tasks[i].op = "changeLanguage"
    /\ tasks' = RemoveAt(tasks, i)
    /\ consoleErrors' = consoleErrors

\* The config the registry table holds for an enabled code.
ConfigOf(c) == languages[CHOOSE k \in 1..Len(languages) : languages[k].code = c]

\* C11: when changeLanguage(c) completes successfully the active locale is
\* c, the text direction is that of c's config, the stored preference is c,
\* and exactly one languageChanged event was dispatched for it, carrying c,
\* c's config and c's direction.
C11_SuccessfulSwitchPostState ==
    [][\A i \in 1..Len(tasks) :
          Completes(i) =>
              LET c == tasks[i].language
              IN /\ currentLanguage' = c
                 /\ document'.dir = ConfigOf(c).direction
                 /\ isRTL' = (ConfigOf(c).direction = "rtl")
                 /\ storedLanguage' = c
                 /\ events' = Append(events,
                        [language |-> c, config |-> ConfigOf(c),
                         isRTL |-> (ConfigOf(c).direction = "rtl")])]_vars

\* The locale segment a path starts with: its first non-empty segment when
\* that is an enabled two-character code, else null.
LocaleSegment(path) ==
    LET segs == FilterBoolean(Split(path, "/"))
    IN IF Len(segs) > 0 /\ Len(segs[1]) = 2 /\ segs[1] \in EnabledCodes
       THEN segs[1] ELSE Null

\* A path "/xx<rest>" without its leading locale segment.
AfterLocaleSegment(path) == SubSeq(path, 4, Len(path))

\* C12: a successful switch to c rewrites the path: an existing locale
\* segment is replaced by c and a missing one is prefixed when c is not the
\* default; when c is the default the resulting path has no locale segment;
\* the query string is preserved.
C12_UrlRewrite ==
    [][\A i \in 1..Len(tasks) :
          Completes(i) =>
              LET c   == currentLanguage'
                  seg == LocaleSegment(pathname)
              IN /\ search' = search
                 /\ IF c # defaultLanguage
                    THEN IF seg # Null
                         THEN pathname' = <<"/">> \o c
                                          \o AfterLocaleSegment(pathname)
                         ELSE pathname' = <<"/">> \o c \o pathname
                    ELSE /\ LocaleSegment(pathname') = Null
                         /\ seg = Null => pathname' = pathname]_vars

\* The tree with no entries.
EmptyTree == Obj(<<>>)

\* C13 (as claimed): a stored tree is the fetched file, or the built-in
\* table of the same code, or the empty tree when the code has no table.
C13_EmptyTreeWithoutTable ==
    \A c \in DOMAIN translations :
        translations[c] \in
            {JsonFile(c),
             IF c \in {en, es, fr} THEN inlineTranslations[c] ELSE EmptyTree}

\* C13 (amended): a load never raises, and a stored tree is the fetched
\* file, or the built-in table of the same code, or the built-in English
\* table when the code has no table of its own.
C13_EnglishTableWithoutTable ==
    /\ \A c \in DOMAIN translations :
           translations[c] \in
               {JsonFile(c),
                IF c \in {en, es, fr} THEN inlineTranslations[c]
                ELSE inlineTranslations[en]}
    /\ consoleErrors > 0 => calls > 0

C13_Witness ==
    /\ de \in DOMAIN translations
    /\ translations[de] = inlineTranslations[en]
    /\ en \in DOMAIN translations
    /\ translations[en] = JsonFile(en)
    /\ currentLanguage = de
    /\ t(translations, currentLanguage, k_nav_home, <<>>) = v_Home

\* C18: the engine is marked ready, and initialize() completes, only with
\* the trees of the detected locale and of the default locale loaded.
C18_ReadyOnlyWhenLoaded ==
    [][/\ (~initialized /\ initialized')
           => /\ calls' = 0
              /\ {currentLanguage', defaultLanguage} \subseteq DOMAIN translations'
       /\ (\/ switcherListeners' > switcherListeners
           \/ (initialized /\ ~initializeCalled /\ initializeCalled'))
           => /\ initialized'
              /\ {currentLanguage', defaultLanguage} \subseteq DOMAIN translations'
      ]_vars

C18_Witness ==
    /\ initialized
    /\ switcherListeners > 0
    /\ calls = 0
    /\ currentLanguage # defaultLanguage
    /\ {currentLanguage, defaultLanguage} \subseteq DOMAIN translations

\* C20: no step removes a code from the translations map.
C20_LoadedCodesGrow ==
    [][DOMAIN translations \subseteq DOMAIN translations']_vars

C20_Witness ==
    /\ consoleErrors > 0
    /\ Cardinality(DOMAIN translations) >= 3
    /\ \E c \in DOMAIN translations : translations[c] # JsonFile(c)

\* C19: isLanguageSupported is true exactly of the codes the registry holds
\* with enabled = true, getSupportedLanguages returns exactly the enabled
\* configs in registry order, and detection never selects 'ar'.
C19_SupportedIsEnabled ==
    constructed
        => /\ \A c \in {en, es, fr, de, ja, zh, ar, xx, <<>>, Null} :
                  isLanguageSupported(languageConfigs, c)
                      = (c \in {en, es, fr, de, ja, zh})
           /\ LET supported == getSupportedLanguages(languageConfigs)
              IN /\ [k \in 1..Len(supported) |-> supported[k].code]
                        = <<en, es, fr, de, ja, zh>>
                 /\ \A k \in 1..Len(supported) :
                        /\ supported[k].enabled
                        /\ supported[k] = languageConfigs[k]
           /\ currentLanguage # ar

C19_Witness ==
    /\ constructed
    /\ search = q_ar /\ pathname = p_ar_work /\ storedLanguage = ar
    /\ navigator.language = n_arSA
    /\ navigator.languages = <<n_arSA, n_zhCN, n_frFR>>
    /\ currentLanguage = zh
    /\ ~isLanguageSupported(languageConfigs, ar)
    /\ Len(getSupportedLanguages(languageConfigs)) = 6

\* t() has been called.
CalledT == resolved.key # Null

\* The string leaf the walk of the resolved key ends at in the tree of a
\* language, null when the walk fails or the tree is not loaded.
Leaf(language) == getTranslation(translations, resolved.key, language)

\* C14: a key whose walk through the active tree ends at a string leaf
\* resolves, without interpolations, to exactly that leaf, the empty string
\* included, whatever the default tree holds.
C14_ActiveLeafReturned ==
    (CalledT /\ resolved.interpolations = <<>> /\ Leaf(currentLanguage) # Null)
        => resolved.result = Leaf(currentLanguage)

\* C15: when the active locale is not the default and the walk fails in the
\* active tree, the key resolves to the string leaf found in the default
\* tree.
C15_DefaultLeafReturned ==
    (/\ CalledT /\ resolved.interpolations = <<>>
     /\ currentLanguage # defaultLanguage
     /\ Leaf(currentLanguage) = Null
     /\ Leaf(defaultLanguage) # Null)
        => resolved.result = Leaf(defaultLanguage)

\* C16: a key that resolves in neither the active nor the default tree, a
\* tree that is not loaded included, resolves to the key itself.
C16_KeyReturned ==
    (/\ CalledT /\ resolved.interpolations = <<>>
     /\ Leaf(currentLanguage) = Null
     /\ Leaf(defaultLanguage) = Null)
        => resolved.result = resolved.key

C16_Witness ==
    /\ CalledT
    /\ resolved.key = k_nav_home
    /\ resolved.interpolations = <<>>
    /\ currentLanguage = fr
    /\ DOMAIN translations = {en}
    /\ Leaf(defaultLanguage) = Null
    /\ resolved.result = k_nav_home

\* The text with every placeholder whose name is in the map replaced by the
\* mapped value, in one pass over the text; everything else is copied.
Interpolated(s, interpolations) ==
    LET RECURSIVE Go(_, _)
        Go(i, acc) ==
            IF i > Len(s) THEN acc
            ELSE LET hits == {k \in 1..Len(interpolations) :
                                 PlaceholderAt(s, i, interpolations[k].name) > 0}
                 IN IF hits = {}
                    THEN Go(i + 1, Append(acc, s[i]))
                    ELSE LET k == CHOOSE h \in hits : TRUE
                         IN Go(i + PlaceholderAt(s, i, interpolations[k].name),
                               acc \o interpolations[k].value)
    IN Go(1, <<>>)

\* C17: the result of t(key, interpolations) is the resolved text with every
\* placeholder whose name is in the map replaced by the mapped value and
\* every other placeholder left verbatim.
C17_Interpolation ==
    CalledT
        => resolved.result =
               Interpolated(t(translations, currentLanguage, resolved.key, <<>>),
                            resolved.interpolations)

\* The changeLanguage call suspended as task i fails in this step and
\* restores the language it replaced.
RollsBack(i) ==
    /\ i \in 1..Len(tasks)
    /\ tasks[i].op = "changeLanguage"
    /\ tasks' = RemoveAt(tasks, i)
    /\ consoleErrors' = consoleErrors + 1
    /\ currentLanguage' = tasks[i].previousLanguage

\* C21: once detection has chosen the active locale, only changeLanguage
\* writes it: a step that changes currentLanguage is the construction, a
\* call of changeLanguage or the rollback of a failed one; no load, no
\* failed fetch during startup and no initialize() changes it.
C21_ActiveLocaleWrittenBySwitcherOnly ==
    [][currentLanguage' # currentLanguage
          => \/ ~constructed /\ constructed'
             \/ CallStep
             \/ \E i \in 1..Len(tasks) : RollsBack(i)]_vars

C21_Witness ==
    /\ initialized
    /\ initializeCalled
    /\ switcherListeners > 0
    /\ calls = 0
    /\ tasks = <<>>
    /\ pathname = p_fr_work
    /\ currentLanguage = fr
    /\ translations[fr] = inlineTranslations[fr]
    /\ translations[en] = inlineTranslations[en]

\* C27: when a changeLanguage call completes successfully and no other call
\* is in flight, the stored preference equals the active locale.
C27_StoredEqualsActive ==
    [][\A i \in 1..Len(tasks) :
          (/\ Completes(i)
           /\ \A j \in 1..Len(tasks') : tasks'[j].op # "changeLanguage")
              => storedLanguage' = currentLanguage']_vars

\* C29: before any switch, at most one languageChanged event has been
\* dispatched: startup notifies once.
C29_StartupNotifiesOnce ==
    calls = 0 => Len(events) <= 1

\* C28: when changeLanguage(c) has completed successfully, detection run
\* against the resulting path, the query string and the stored preference
\* yields c.
C28_SwitchDetectRoundTrip ==
    [][\A i \in 1..Len(tasks) :
          Completes(i)
              => detectLanguage(languageConfigs', search', pathname',
                                storedLanguage', navigator')
                     = tasks[i].language]_vars

\* C22: a page transition that starts while the mobile menu is open closes
\* the menu: isMenuOpen becomes false and the menu-open classes are removed.
C22_TransitionClosesMenu ==
    [][(/\ ~navigation.isTransitioning
        /\ navigation'.isTransitioning
        /\ navigation.isMenuOpen)
          => /\ ~navigation'.isMenuOpen
             /\ ~navigation'.menuOpenClass]_vars

\* What a navigation click, transitionToPage or a menu toggle may change.
transitionState(n) ==
    <<n.isTransitioning, n.transitions, n.transitionHref, n.overlayShown,
      n.isMenuOpen, n.menuOpenClass>>

\* C26: at most one page transition is started; once isTransitioning is
\* set it stays set, and no click, transitionToPage call or menu toggle
\* starts a transition or changes the menu.
C26_OneTransitionPerPage ==
    [][/\ navigation'.transitions <= 1
       /\ navigation.isTransitioning
            => transitionState(navigation') = transitionState(navigation)]_vars

C26_Witness ==
    /\ navigation.isTransitioning
    /\ navigation.transitions = 1
    /\ navigation.transitionHref = h_work
    /\ navigation.lastHref = h_about
    /\ navigation.defaultPrevented
    /\ navigation.isMenuOpen

\* C23: when the fallback timeout fires before loading is complete it
\* completes it, shows 100% and schedules the completion of the intro; the
\* timeout does fire, so loading is eventually complete whatever else
\* happens or fails to happen; and the displayed progress never exceeds 100.
C23_FallbackCompletesLoading ==
    /\ [][(/\ preloader.fallbackPending
           /\ ~preloader'.fallbackPending
           /\ ~preloader.loadingComplete)
             => /\ preloader'.loadingComplete
                /\ preloader'.progressText = 100
                /\ preloader'.completeTimers = preloader.completeTimers + 1]_vars
    /\ [](preloader.progressText <= 100)
    /\ <>preloader.loadingComplete

C23_Witness ==
    /\ ~preloader.fallbackPending
    /\ preloader.windowLoadPending
    /\ preloader.pendingAssets = 2
    /\ preloader.assetsLoaded = preloader.totalAssets
    /\ preloader.loadingComplete
    /\ preloader.progressText = 100
    /\ preloader.completeTimers = 1
    /\ preloader.completeIntroCalls = 0

\* C30: 'sonar:intro-complete' is dispatched at most once.
C30_IntroCompletesOnce ==
    preloader.introCompleteEvents <= 1

\* The elements of a sequence.
Range(seq) == {seq[k] : k \in 1..Len(seq)}

\* C24: once analytics is initialized, every event that was passed to
\* trackEvent, session_start included, is in the event list of the session.
C24_EarlyEventsRecorded ==
    analytics.initialized
        => Range(analytics.submitted) \subseteq Range(analytics.events)

\* This step is a call of the loader of dataset d.
LoadCallOf(d) ==
    /\ cms'.loads = cms.loads + 1
    /\ cms'.lastLoad = d

====
